---- MODULE Spec2Model ----
(***************************************************************************)
(* Call hierarchy provider of pyright                                      *)
(* (packages/pyright-internal/src/languageService/callHierarchyProvider.ts)*)
(*                                                                         *)
(* The provider is modelled over a small program snapshot of three files.  *)
(* Offsets are token offsets: every name and every punctuation mark is one *)
(* token wide, statements are separated by one token.                      *)
(*                                                                         *)
(*   main.py                                                               *)
(*     def seq():      real(); real()                                      *)
(*     def nest():     real(real())                                        *)
(*     def chain():    obj.f(a).f(b)                                       *)
(*     def mix():      real(); alias_name()                                *)
(*     def acc():      obj.prop; obj.f(); obj.f()                          *)
(*     def var():      x(); bad(); vx()                                    *)
(*     def __init__(): real()            (the __init__ of class C)         *)
(*     lambda: real()                                                      *)
(*     real()                                                              *)
(*   lib.py                                                                *)
(*     def real():     helper()                                            *)
(*   ext.py                                                                *)
(*     def helper():   real(); real()                                      *)
(***************************************************************************)
EXTENDS Integers, Sequences, FiniteSets, TLC

NoDecl == "<nodecl>"
NoName == "<noname>"
NoNode == "<nonode>"
NoFile == "<nofile>"

Files == {"main", "lib", "ext"}

(* ---------------------------------------------------------------------- *)
(* Parse nodes (parser/parseNodes.ts): the node kinds the walkers see.     *)
(* ---------------------------------------------------------------------- *)
NameNode(v) == [nt |-> "Name", value |-> v]
CallNode(l, a) == [nt |-> "Call", leftExpression |-> l, arguments |-> a]
MemberAccessNode(l, m) == [nt |-> "MemberAccess", leftExpression |-> l, memberName |-> m]
FunctionNode(n, b) == [nt |-> "Function", name |-> n, suite |-> b]
LambdaNode(e) == [nt |-> "Lambda", expression |-> e]
ModuleNode(s) == [nt |-> "Module", statements |-> s]

CallReal == CallNode(NameNode("real"), <<>>)
CallObjF == CallNode(MemberAccessNode(NameNode("obj"), "f"), <<>>)

MainTree ==
    ModuleNode(<<
        FunctionNode("seq", <<CallReal, CallReal>>),
        FunctionNode("nest", <<CallNode(NameNode("real"), <<CallReal>>)>>),
        FunctionNode("chain",
            <<CallNode(MemberAccessNode(
                  CallNode(MemberAccessNode(NameNode("obj"), "f"), <<NameNode("a")>>),
                  "f"), <<NameNode("b")>>)>>),
        FunctionNode("mix", <<CallReal, CallNode(NameNode("alias_name"), <<>>)>>),
        FunctionNode("acc", <<MemberAccessNode(NameNode("obj"), "prop"), CallObjF, CallObjF>>),
        FunctionNode("var", <<CallNode(NameNode("x"), <<>>), CallNode(NameNode("bad"), <<>>),
                              CallNode(NameNode("vx"), <<>>)>>),
        FunctionNode("__init__", <<CallReal>>),
        LambdaNode(CallReal),
        CallReal >>)

LibTree == ModuleNode(<<FunctionNode("real", <<CallNode(NameNode("helper"), <<>>)>>)>>)

ExtTree == ModuleNode(<<FunctionNode("helper", <<CallReal, CallReal>>)>>)

ParseTree(file) ==
    CASE file = "main" -> MainTree
      [] file = "lib" -> LibTree
      [] file = "ext" -> ExtTree

(* Token width of a node's text. *)
RECURSIVE Width(_)
RECURSIVE WidthAll(_)
WidthAll(nodes) ==
    IF nodes = <<>> THEN 0
    ELSE Width(Head(nodes)) + (IF Len(nodes) > 1 THEN 1 ELSE 0) + WidthAll(Tail(nodes))

Width(n) ==
    CASE n.nt = "Name" -> 1
      [] n.nt = "Call" -> Width(n.leftExpression) + 1 + WidthAll(n.arguments) + 1
      [] n.nt = "MemberAccess" -> Width(n.leftExpression) + 2
      [] n.nt = "Function" -> 5 + WidthAll(n.suite)
      [] n.nt = "Lambda" -> 2 + Width(n.expression)
      [] n.nt = "Module" -> WidthAll(n.statements)

(* convertOffsetsToRange: the files are one line long, a range is its two  *)
(* offsets.                                                                *)
convertOffsetsToRange(start, end) == [start |-> start, end |-> end]

(* ParseTreeUtils.getExecutionScopeNode: the nearest enclosing module,     *)
(* lambda or function; kept while descending.                              *)
ScopeOf(n, off, outer) ==
    CASE n.nt = "Module" -> [nt |-> "Module", start |-> 0, length |-> 0, name |-> NoName]
      [] n.nt = "Lambda" -> [nt |-> "Lambda", start |-> off, length |-> Width(n), name |-> NoName]
      [] n.nt = "Function" -> [nt |-> "Function", start |-> off + 1, length |-> 1, name |-> n.name]
      [] OTHER -> outer


(* ---------------------------------------------------------------------- *)
(* Declarations (analyzer/declaration.ts) of the snapshot.                 *)
(* ---------------------------------------------------------------------- *)
Decl(t, p, r, n, h, nd, a) ==
    [type |-> t, path |-> p, range |-> convertOffsetsToRange(r, r + 1), name |-> n,
     hasType |-> h, node |-> nd, aliasOf |-> a]

DeclIds ==
    {"real", "imp_real", "imp_alias", "helper", "C", "D", "E", "C_init", "C_init_b",
     "E_init", "f", "prop", "x", "imp_bad", "imp_var", "seq", "nest", "chain", "mix",
     "acc", "var", "g_var"}

DeclOf(id) ==
    CASE id = "real"      -> Decl("Function", "lib", 1, "real", TRUE, "fn:real", NoDecl)
      [] id = "helper"    -> Decl("Function", "ext", 1, "helper", TRUE, "fn:helper", NoDecl)
      [] id = "imp_real"  -> Decl("Alias", "main", 90, "real", FALSE, NoNode, "real")
      [] id = "imp_alias" -> Decl("Alias", "main", 92, "alias_name", FALSE, NoNode, "real")
      [] id = "imp_bad"   -> Decl("Alias", "main", 94, "bad", FALSE, NoNode, NoDecl)
      [] id = "imp_var"   -> Decl("Alias", "main", 96, "vx", FALSE, NoNode, "x")
      [] id = "x"         -> Decl("Variable", "main", 98, "x", TRUE, "name:x", NoDecl)
      [] id = "C"         -> Decl("Class", "main", 100, "C", TRUE, "cls:C", NoDecl)
      [] id = "D"         -> Decl("Class", "main", 102, "D", TRUE, "cls:D", NoDecl)
      [] id = "E"         -> Decl("Class", "main", 104, "E", TRUE, "cls:E", NoDecl)
      [] id = "C_init"    -> Decl("Function", "main", 106, "__init__", TRUE, "fn:__init__", NoDecl)
      [] id = "C_init_b"  -> Decl("Function", "main", 108, "__init__", TRUE, "fn:__init__b", NoDecl)
      [] id = "E_init"    -> Decl("Variable", "main", 110, "__init__", FALSE, "name:__init__", NoDecl)
      [] id = "f"         -> Decl("Function", "main", 112, "f", TRUE, "fn:f", NoDecl)
      [] id = "prop"      -> Decl("Function", "main", 114, "prop", TRUE, "fn:prop", NoDecl)
      [] id = "seq"       -> Decl("Function", "main", 1, "seq", TRUE, "fn:seq", NoDecl)
      [] id = "nest"      -> Decl("Function", "main", 120, "nest", TRUE, "fn:nest", NoDecl)
      [] id = "chain"     -> Decl("Function", "main", 122, "chain", TRUE, "fn:chain", NoDecl)
      [] id = "mix"       -> Decl("Function", "main", 124, "mix", TRUE, "fn:mix", NoDecl)
      [] id = "acc"       -> Decl("Function", "main", 126, "acc", TRUE, "fn:acc", NoDecl)
      [] id = "var"       -> Decl("Function", "main", 128, "var", FALSE, "fn:var", NoDecl)
      [] id = "g_var"     -> Decl("Variable", "main", 132, "seq", FALSE, "name:seq2", NoDecl)

(* DeclarationUtils.hasTypeForDeclaration / getNameFromDeclaration /       *)
(* areDeclarationsSame.                                                    *)
hasTypeForDeclaration(d) == d.hasType
getNameFromDeclaration(d) == d.name
areDeclarationsSame(a, b) == a.type = b.type /\ a.path = b.path /\ a.range = b.range

Undefined == Decl("<undefined>", NoFile, 0, NoName, FALSE, NoNode, NoDecl)

(* TypeEvaluator.resolveAliasDeclaration(decl, resolveLocalNames = true):  *)
(* a declaration that is no alias resolves to itself; Undefined is failure.*)
RECURSIVE resolveAliasDeclaration(_)
resolveAliasDeclaration(d) ==
    IF d.type # "Alias" THEN d
    ELSE IF d.aliasOf = NoDecl THEN Undefined
    ELSE resolveAliasDeclaration(DeclOf(d.aliasOf))

(* TypeEvaluator.getDeclarationsForNameNode: the declarations of the       *)
(* symbol a name occurrence binds to, by spelling.                         *)
getDeclarationsForNameNode(value) ==
    CASE value = "real" -> <<DeclOf("imp_real")>>
      [] value = "alias_name" -> <<DeclOf("imp_alias")>>
      [] value = "helper" -> <<DeclOf("helper")>>
      [] value = "x" -> <<DeclOf("x")>>
      [] value = "bad" -> <<DeclOf("imp_bad")>>
      [] value = "vx" -> <<DeclOf("imp_var")>>
      [] value = "f" -> <<DeclOf("f")>>
      [] value = "prop" -> <<DeclOf("prop")>>
      [] value = "seq" -> <<DeclOf("seq"), DeclOf("g_var")>>
      [] OTHER -> <<>>

(* DocumentSymbolCollector.getDeclarationsForNode(resolveLocalName = true): *)
(* the declarations of the occurrence with aliases resolved.               *)
RECURSIVE ResolveEach(_)
ResolveEach(ds) ==
    IF ds = <<>> THEN <<>>
    ELSE LET r == resolveAliasDeclaration(Head(ds))
         IN  (IF r = Undefined THEN <<>> ELSE <<r>>) \o ResolveEach(Tail(ds))

getDeclarationsForNode(value) == ResolveEach(getDeclarationsForNameNode(value))

(* Class symbol tables and method resolution order (analyzer/types.ts).    *)
Mro(cls) ==
    CASE cls = "C" -> <<"C", "object">>
      [] cls = "D" -> <<"D", "C", "object">>
      [] cls = "E" -> <<"E", "C", "object">>
      [] OTHER -> <<cls>>

NoMember == [found |-> FALSE, decls |-> <<>>, isFunction |-> FALSE, isProperty |-> FALSE,
             hasType |-> FALSE, instanceVar |-> FALSE, owner |-> "<none>"]
Member(ds, fn, pr, c) ==
    [found |-> TRUE, decls |-> ds, isFunction |-> fn, isProperty |-> pr, hasType |-> TRUE,
     instanceVar |-> FALSE, owner |-> c]

ClassField(cls, name) ==
    CASE cls = "C" /\ name = "__init__" -> Member(<<DeclOf("C_init"), DeclOf("C_init_b")>>, TRUE, FALSE, "C")
      [] cls = "C" /\ name = "f" -> Member(<<DeclOf("f")>>, TRUE, FALSE, "C")
      [] cls = "C" /\ name = "prop" -> Member(<<DeclOf("prop")>>, FALSE, TRUE, "C")
      [] cls = "E" /\ name = "__init__" -> Member(<<DeclOf("E_init")>>, FALSE, FALSE, "E")
      [] cls = "object" /\ name = "__init__" -> Member(<<>>, TRUE, FALSE, "object")
      [] OTHER -> NoMember

(* typeUtils.lookUpClassMember(classType, name, flags): the first class of *)
(* the MRO, as narrowed by the flags, that declares the name.              *)
RECURSIVE LookUpIn(_, _, _)
LookUpIn(mro, name, flags) ==
    IF mro = <<>> THEN NoMember
    ELSE LET m == ClassField(Head(mro), name)
             skip == \/ ("SkipObjectBaseClass" \in flags /\ Head(mro) = "object")
                     \/ ("SkipInstanceVariables" \in flags /\ m.instanceVar)
         IN  IF m.found /\ ~skip THEN m ELSE LookUpIn(Tail(mro), name, flags)

lookUpClassMember(cls, name, flags) ==
    LookUpIn(IF "SkipBaseClasses" \in flags THEN <<Head(Mro(cls))>> ELSE Mro(cls), name, flags)

lookUpObjectMember(cls, name) == lookUpClassMember(cls, name, {})

(* TypeEvaluator.getType(expression) as the list of its subtypes; the      *)
(* empty list is "no type". obj is a C instance, u is C | D, f returns C.  *)
InstanceOf(c) == [isClassInstance |-> TRUE, cls |-> c]
getType(e) ==
    CASE e.nt = "Name" /\ e.value = "obj" -> <<InstanceOf("C")>>
      [] e.nt = "Call" ->
           IF e.leftExpression.nt = "MemberAccess" /\ e.leftExpression.memberName = "f"
           THEN <<InstanceOf("C")>> ELSE <<>>
      [] OTHER -> <<>>


(* ---------------------------------------------------------------------- *)
(* ParseTreeWalker.walk: a node is visited before its children, the        *)
(* children in source order (Call: leftExpression, arguments; MemberAccess:*)
(* leftExpression, memberName). Only Call and MemberAccess visits do work; *)
(* the walk is the sequence of those visits.                               *)
(* ---------------------------------------------------------------------- *)
NoNameNode == [present |-> FALSE, value |-> NoName, start |-> 0, length |-> 0]
NameAt(v, off) == [present |-> TRUE, value |-> v, start |-> off, length |-> 1]

(* visitCall, lines 328-334: the callee name node of a call. *)
CalleeName(n, off) ==
    IF n.leftExpression.nt = "Name" THEN NameAt(n.leftExpression.value, off)
    ELSE IF n.leftExpression.nt = "MemberAccess"
    THEN NameAt(n.leftExpression.memberName, off + Width(n.leftExpression.leftExpression) + 1)
    ELSE NoNameNode

Visit(vt, nameNode, leftTypes, scope) ==
    [vt |-> vt, nameNode |-> nameNode, leftTypes |-> leftTypes, scope |-> scope]

RECURSIVE Walk(_, _, _)
RECURSIVE WalkAll(_, _, _)
WalkAll(nodes, off, scope) ==
    IF nodes = <<>> THEN <<>>
    ELSE Walk(Head(nodes), off, scope) \o WalkAll(Tail(nodes), off + Width(Head(nodes)) + 1, scope)

Walk(n, off, scope) ==
    CASE n.nt = "Name" -> <<>>
      [] n.nt = "Call" ->
           <<Visit("Call", CalleeName(n, off), <<>>, scope)>>
           \o Walk(n.leftExpression, off, scope)
           \o WalkAll(n.arguments, off + Width(n.leftExpression) + 1, scope)
      [] n.nt = "MemberAccess" ->
           <<Visit("MemberAccess", NameAt(n.memberName, off + Width(n.leftExpression) + 1),
                   getType(n.leftExpression), scope)>>
           \o Walk(n.leftExpression, off, scope)
      [] n.nt = "Function" -> WalkAll(n.suite, off + 5, ScopeOf(n, off, scope))
      [] n.nt = "Lambda" -> Walk(n.expression, off + 2, ScopeOf(n, off, scope))
      [] n.nt = "Module" -> WalkAll(n.statements, 0, ScopeOf(n, off, scope))

ModuleScope == [nt |-> "Module", start |-> 0, length |-> 0, name |-> NoName]

(* FindIncomingCallTreeWalker.findCalls walks the whole parse tree. *)
WalkFile(file) == Walk(ParseTree(file), 0, ModuleScope)

(* FindOutgoingCallTreeWalker.findCalls walks the declaration's node: the  *)
(* function statement of that name in the declaration's file.              *)
RECURSIVE WalkFrom(_, _, _)
WalkFrom(stmts, off, node) ==
    IF stmts = <<>> THEN <<>>
    ELSE IF Head(stmts).nt = "Function" /\ node = "fn:" \o Head(stmts).name
    THEN Walk(Head(stmts), off, ModuleScope)
    ELSE WalkFrom(Tail(stmts), off + Width(Head(stmts)) + 1, node)

WalkNode(file, node) == WalkFrom(ParseTree(file).statements, 0, node)


(* ---------------------------------------------------------------------- *)
(* FindOutgoingCallTreeWalker                                              *)
(* ---------------------------------------------------------------------- *)
rangesAreEqual(a, b) == a.start = b.start /\ a.end = b.end

(* getSymbolKind(decl) ?? SymbolKind.Module *)
SymbolKindOf(d) ==
    CASE d.type = "Function" -> "Function"
      [] d.type = "Class" -> "Class"
      [] OTHER -> "Module"

(* x ?? y for a name *)
OrElse(n, v) == IF n = NoName THEN v ELSE n

(* A search that compares the destination's name instead of its range. *)
FindOutgoingByName(calls, dest) ==
    LET hits == {i \in 1..Len(calls) :
                    calls[i].to.uri = dest.uri /\ calls[i].to.name = dest.name}
    IN  IF hits = {} THEN 0 ELSE CHOOSE i \in hits : \A j \in hits : i <= j

(* Lines 413-415: the index of the record of this destination, 0 if none. *)
FindOutgoing(calls, dest) ==
    LET hits == {i \in 1..Len(calls) :
                    calls[i].to.uri = dest.uri /\ rangesAreEqual(calls[i].to.range, dest.range)}
    IN  IF hits = {} THEN 0 ELSE CHOOSE i \in hits : \A j \in hits : i <= j

(* A record that keeps the spelling of its first call site. *)
NameKeepFirst(stored, value, resolvedDecl) == stored

(* Lines 425-429: the record's name after a call site spelled `value`. *)
NameAfterCallSite(stored, value, resolvedDecl) ==
    IF stored # value THEN OrElse(getNameFromDeclaration(resolvedDecl), value) ELSE stored

(* An aggregator without the kind test of lines 399-401. *)
addOutgoingCallAnyKind(calls, nameNode, declaration) ==
    LET resolvedDecl == resolveAliasDeclaration(declaration) IN
    IF resolvedDecl = Undefined THEN calls
    ELSE
    LET callDest == [name |-> nameNode.value, kind |-> SymbolKindOf(resolvedDecl),
                     uri |-> resolvedDecl.path, range |-> resolvedDecl.range]
        found == FindOutgoing(calls, callDest)
        pushed == IF found = 0
                  THEN Append(calls, [to |-> callDest, fromRanges |-> <<>>])
                  ELSE calls
        i == IF found = 0 THEN Len(pushed) ELSE found
        fromRange == convertOffsetsToRange(nameNode.start, nameNode.start + nameNode.length)
    IN  [pushed EXCEPT
            ![i].to.name = NameAfterCallSite(pushed[i].to.name, nameNode.value, resolvedDecl),
            ![i].fromRanges = Append(pushed[i].fromRanges, fromRange)]

(* Lines 393-437. *)
addOutgoingCallForDeclaration(calls, nameNode, declaration) ==
    LET resolvedDecl == resolveAliasDeclaration(declaration) IN
    IF resolvedDecl = Undefined THEN calls
    ELSE IF resolvedDecl.type # "Function" /\ resolvedDecl.type # "Class" THEN calls
    ELSE
    LET callDest == [name |-> nameNode.value, kind |-> SymbolKindOf(resolvedDecl),
                     uri |-> resolvedDecl.path, range |-> resolvedDecl.range]
        found == FindOutgoing(calls, callDest)
        pushed == IF found = 0
                  THEN Append(calls, [to |-> callDest, fromRanges |-> <<>>])
                  ELSE calls
        i == IF found = 0 THEN Len(pushed) ELSE found
        fromRange == convertOffsetsToRange(nameNode.start, nameNode.start + nameNode.length)
    IN  [pushed EXCEPT
            ![i].to.name = NameAfterCallSite(pushed[i].to.name, nameNode.value, resolvedDecl),
            ![i].fromRanges = Append(pushed[i].fromRanges, fromRange)]

RECURSIVE AddOutgoingEach(_, _, _)
AddOutgoingEach(calls, nameNode, decls) ==
    IF decls = <<>> THEN calls
    ELSE AddOutgoingEach(addOutgoingCallForDeclaration(calls, nameNode, Head(decls)),
                         nameNode, Tail(decls))

(* Lines 328-349 (after the cancellation check). *)
OutgoingVisitCall(calls, ev) ==
    IF ev.nameNode.present
    THEN AddOutgoingEach(calls, ev.nameNode, getDeclarationsForNameNode(ev.nameNode.value))
    ELSE calls

(* Lines 358-390: one subtype of the left-hand type at a time. *)
RECURSIVE OutgoingEachSubtype(_, _, _)
OutgoingEachSubtype(calls, nameNode, subtypes) ==
    IF subtypes = <<>> THEN calls
    ELSE LET baseType == Head(subtypes)
             memberInfo == lookUpObjectMember(baseType.cls, nameNode.value)
             next == IF ~baseType.isClassInstance THEN calls
                     ELSE IF ~memberInfo.found THEN calls
                     ELSE IF ~memberInfo.hasType THEN calls
                     ELSE IF memberInfo.isProperty
                     THEN AddOutgoingEach(calls, nameNode, memberInfo.decls)
                     ELSE calls
         IN  OutgoingEachSubtype(next, nameNode, Tail(subtypes))

OutgoingVisitMemberAccess(calls, ev) == OutgoingEachSubtype(calls, ev.nameNode, ev.leftTypes)

OutgoingVisit(calls, ev) ==
    IF ev.vt = "Call" THEN OutgoingVisitCall(calls, ev) ELSE OutgoingVisitMemberAccess(calls, ev)

(* ---------------------------------------------------------------------- *)
(* FindIncomingCallTreeWalker                                              *)
(* ---------------------------------------------------------------------- *)
(* Lines 551-591: the caller item of an execution scope. *)
CallSource(filePath, executionNode) ==
    CASE executionNode.nt = "Module" ->
           [name |-> "(module) " \o filePath, kind |-> "Module", uri |-> filePath,
            range |-> convertOffsetsToRange(0, 0)]
      [] executionNode.nt = "Lambda" ->
           [name |-> "(lambda)", kind |-> "Function", uri |-> filePath,
            range |-> convertOffsetsToRange(executionNode.start,
                                           executionNode.start + executionNode.length)]
      [] OTHER ->
           [name |-> executionNode.name, kind |-> "Function", uri |-> filePath,
            range |-> convertOffsetsToRange(executionNode.start,
                                           executionNode.start + executionNode.length)]

(* Lines 595-597: the index of the record of this caller, 0 if none. *)
FindIncoming(calls, src) ==
    LET hits == {i \in 1..Len(calls) :
                    calls[i].from.uri = src.uri /\ rangesAreEqual(calls[i].from.range, src.range)}
    IN  IF hits = {} THEN 0 ELSE CHOOSE i \in hits : \A j \in hits : i <= j

(* Lines 545-613. *)
addIncomingCallForDeclaration(calls, filePath, nameNode, executionNode) ==
    LET callSource == CallSource(filePath, executionNode)
        found == FindIncoming(calls, callSource)
        pushed == IF found = 0
                  THEN Append(calls, [from |-> callSource, fromRanges |-> <<>>])
                  ELSE calls
        i == IF found = 0 THEN Len(pushed) ELSE found
        fromRange == convertOffsetsToRange(nameNode.start, nameNode.start + nameNode.length)
    IN  [pushed EXCEPT ![i].fromRanges = Append(pushed[i].fromRanges, fromRange)]

SomeSame(decls, d) == \E i \in 1..Len(decls) : areDeclarationsSame(decls[i], d)

(* Lines 463-501 (after the cancellation check). *)
IncomingVisitCall(calls, filePath, symbolName, declaration, ev) ==
    IF ev.nameNode.present /\ ev.nameNode.value = symbolName
    THEN LET declarations == getDeclarationsForNode(ev.nameNode.value) IN
         IF declaration.type = "Alias"
         THEN LET resolvedCurDecls == resolveAliasDeclaration(declaration) IN
              IF resolvedCurDecls # Undefined /\ SomeSame(declarations, resolvedCurDecls)
              THEN addIncomingCallForDeclaration(calls, filePath, ev.nameNode, ev.scope)
              ELSE calls
         ELSE IF SomeSame(declarations, declaration)
              THEN addIncomingCallForDeclaration(calls, filePath, ev.nameNode, ev.scope)
              ELSE calls
    ELSE calls

(* Lines 507-540. *)
RECURSIVE IncomingEachSubtype(_, _, _, _, _)
IncomingEachSubtype(calls, filePath, declaration, ev, subtypes) ==
    IF subtypes = <<>> THEN calls
    ELSE LET baseType == Head(subtypes)
             memberInfo == lookUpObjectMember(baseType.cls, ev.nameNode.value)
             next == IF ~baseType.isClassInstance THEN calls
                     ELSE IF ~memberInfo.found THEN calls
                     ELSE IF ~memberInfo.hasType THEN calls
                     ELSE IF SomeSame(memberInfo.decls, declaration)
                     THEN addIncomingCallForDeclaration(calls, filePath, ev.nameNode, ev.scope)
                     ELSE calls
         IN  IncomingEachSubtype(next, filePath, declaration, ev, Tail(subtypes))

IncomingVisitMemberAccess(calls, filePath, symbolName, declaration, ev) ==
    IF ev.nameNode.value = symbolName
    THEN IncomingEachSubtype(calls, filePath, declaration, ev, ev.leftTypes)
    ELSE calls

IncomingVisit(calls, filePath, symbolName, declaration, ev) ==
    IF ev.vt = "Call" THEN IncomingVisitCall(calls, filePath, symbolName, declaration, ev)
    ELSE IncomingVisitMemberAccess(calls, filePath, symbolName, declaration, ev)


(* ---------------------------------------------------------------------- *)
(* The host program (ProgramView) and the query.                           *)
(* ---------------------------------------------------------------------- *)
(* ProgramView.getSourceFileInfoList *)
SourceFileInfoList == <<"main", "lib", "ext">>

(* navigationUtils.canNavigateToFile: ext.py lives in an archive. *)
canNavigateToFile(path) == path # "ext"

(* pathUtils.convertPathToUri *)
convertPathToUri(path) == "file:///" \o path

(* ReferencesProvider.getDeclarationForPosition: the result for a cursor.  *)
Ref(ids, nodeId, value) ==
    [found |-> TRUE, declarations |-> [i \in 1..Len(ids) |-> DeclOf(ids[i])],
     nodeAtOffset |-> [id |-> nodeId, value |-> value], symbolNames |-> <<value>>]
NoRef == [found |-> FALSE, declarations |-> <<>>,
          nodeAtOffset |-> [id |-> NoNode, value |-> NoName], symbolNames |-> <<>>]

Query(file, hasParse, ref) == [filePath |-> file, hasParse |-> hasParse, ref |-> ref]

Queries ==
    { Query("main", TRUE, Ref(<<"imp_real">>, "name:real", "real")),
      Query("main", TRUE, Ref(<<"imp_alias">>, "name:alias_name", "alias_name")),
      Query("lib", TRUE, Ref(<<"real">>, "name:real", "real")),
      Query("ext", TRUE, Ref(<<"helper">>, "name:helper", "helper")),
      Query("main", TRUE, Ref(<<"C">>, "name:C", "C")),
      Query("main", TRUE, Ref(<<"D">>, "name:D", "D")),
      Query("main", TRUE, Ref(<<"E">>, "name:E", "E")),
      Query("main", TRUE, Ref(<<"x">>, "name:x", "x")),
      Query("main", TRUE, Ref(<<"imp_bad">>, "name:bad", "bad")),
      Query("main", TRUE, Ref(<<"imp_var">>, "name:vx", "vx")),
      Query("main", TRUE, Ref(<<"seq">>, "name:seq", "seq")),
      Query("main", TRUE, Ref(<<"seq", "g_var">>, "name:seq2", "seq")),
      Query("main", TRUE, Ref(<<"nest">>, "name:nest", "nest")),
      Query("main", TRUE, Ref(<<"chain">>, "name:chain", "chain")),
      Query("main", TRUE, Ref(<<"mix">>, "name:mix", "mix")),
      Query("main", TRUE, Ref(<<"acc">>, "name:acc", "acc")),
      Query("main", TRUE, Ref(<<"var">>, "name:var", "var")),
      Query("main", TRUE, Ref(<<"f">>, "name:f", "f")),
      Query("main", TRUE, Ref(<<"prop">>, "name:prop", "prop")),
      Query("main", TRUE, Ref(<<>>, "name:none", "none")),
      Query("main", TRUE, NoRef),
      Query("main", FALSE, NoRef) }

FileInfos == [Files -> [isUserCode : BOOLEAN, isOpenByClient : BOOLEAN]]

VARIABLES
    query,          \* the provider's file, position and what the host finds there
    info,           \* the host's SourceFileInfo of every file
    token,          \* the cancellation token: TRUE once cancellation is requested
    op,             \* the operation running on the provider
    pc,             \* where that operation stands
    targetDecl,     \* the declaration _getTargetDeclaration selected
    symbolName,     \* the symbol name it selected
    sourceFiles,    \* getIncomingCalls: the files to go through
    fileIdx,        \* getIncomingCalls: the index of the current file
    todo,           \* the visits the running walk has still to make
    parseRoot,      \* getOutgoingCalls: the node the walker was started on
    outgoingCalls,  \* FindOutgoingCallTreeWalker._outgoingCalls
    incomingCalls,  \* FindIncomingCallTreeWalker._incomingCalls
    items,          \* getIncomingCalls: the records of the files done
    result,         \* what the operation returned, or that it threw
    hostLog,        \* history: walks started and handleMemoryHighUsage calls
    sites           \* history: the call sites folded by the aggregators

vars == <<query, info, token, op, pc, targetDecl, symbolName, sourceFiles, fileIdx, todo,
          parseRoot, outgoingCalls, incomingCalls, items, result, hostLog, sites>>

Pending == [kind |-> "pending", value |-> <<>>]
Null == [kind |-> "null", value |-> <<>>]
Cancelled == [kind |-> "cancelled", value |-> <<>>]
List(v) == [kind |-> "list", value |-> v]

(* cancellationUtils.throwIfCancellationRequested: TRUE when it throws. *)
throwIfCancellationRequested(tok) == tok

(* ---------------------------------------------------------------------- *)
(* CallHierarchyProvider._getTargetDeclaration, lines 232-272.             *)
(* ---------------------------------------------------------------------- *)
(* A loop that replaces the target only while the target has no declared  *)
(* type and the candidate has one.                                         *)
RECURSIVE PickTargetTypedOnce(_, _, _, _)
PickTargetTypedOnce(declarations, i, node, target) ==
    IF i > Len(declarations) THEN target
    ELSE LET decl == declarations[i] IN
         IF hasTypeForDeclaration(decl) /\ ~hasTypeForDeclaration(target)
         THEN IF decl.type = "Function" \/ decl.type = "Class"
              THEN IF decl.node = node.id THEN decl
                   ELSE PickTargetTypedOnce(declarations, i + 1, node, decl)
              ELSE PickTargetTypedOnce(declarations, i + 1, node, target)
         ELSE PickTargetTypedOnce(declarations, i + 1, node, target)

RECURSIVE PickTarget(_, _, _, _)
PickTarget(declarations, i, node, target) ==
    IF i > Len(declarations) THEN target
    ELSE LET decl == declarations[i] IN
         IF hasTypeForDeclaration(decl) \/ ~hasTypeForDeclaration(target)
         THEN IF decl.type = "Function" \/ decl.type = "Class"
              THEN IF decl.node = node.id THEN decl
                   ELSE PickTarget(declarations, i + 1, node, decl)
              ELSE PickTarget(declarations, i + 1, node, target)
         ELSE PickTarget(declarations, i + 1, node, target)

getTargetDeclaration(ref, filePath) ==
    LET target == PickTarget(ref.declarations, 1, ref.nodeAtOffset, ref.declarations[1]) IN
    IF target.type = "Alias"
    THEN [targetDecl |-> target, callItemUri |-> filePath,
          symbolName |-> ref.nodeAtOffset.value]
    ELSE [targetDecl |-> target, callItemUri |-> target.path,
          symbolName |-> OrElse(getNameFromDeclaration(target), ref.symbolNames[1])]


(* ---------------------------------------------------------------------- *)
(* The provider after construction (lines 45-53).                          *)
(* ---------------------------------------------------------------------- *)
Init ==
    /\ query \in Queries
    /\ info \in FileInfos
    /\ token = FALSE
    /\ op = "none"
    /\ pc = "ready"
    /\ targetDecl = Undefined
    /\ symbolName = NoName
    /\ sourceFiles = <<>>
    /\ fileIdx = 0
    /\ todo = <<>>
    /\ parseRoot = NoNode
    /\ outgoingCalls = <<>>
    /\ incomingCalls = <<>>
    /\ items = <<>>
    /\ result = Pending
    /\ hostLog = <<>>
    /\ sites = <<>>

(* The host requests cancellation of the query in flight. *)
Cancel ==
    /\ result = Pending
    /\ ~token
    /\ token' = TRUE
    /\ UNCHANGED <<query, info, op, pc, targetDecl, symbolName, sourceFiles, fileIdx, todo,
                   parseRoot, outgoingCalls, incomingCalls, items, result, hostLog, sites>>

Finish(r) ==
    /\ pc' = "done"
    /\ result' = r

Eligible(d) == d.type = "Function" \/ d.type = "Class"

(* onPrepare, lines 55-103. *)
OnPrepareResult(q) ==
    IF ~q.hasParse THEN Null
    ELSE IF ~q.ref.found \/ Len(q.ref.declarations) = 0 THEN Null
    ELSE LET t == getTargetDeclaration(q.ref, q.filePath)
             gated == t.targetDecl.type # "Function" /\ t.targetDecl.type # "Class"
                      /\ t.targetDecl.type # "Alias"
             resolvedDecl == resolveAliasDeclaration(t.targetDecl)
             callItem == [name |-> t.symbolName, kind |-> SymbolKindOf(t.targetDecl),
                          uri |-> t.callItemUri, range |-> t.targetDecl.range]
         IN  IF gated THEN Null
             ELSE IF t.targetDecl.type = "Alias" /\ resolvedDecl = Undefined THEN Null
             ELSE IF t.targetDecl.type = "Alias" /\ ~Eligible(resolvedDecl) THEN Null
             ELSE IF ~canNavigateToFile(callItem.uri) THEN Null
             ELSE List(<<[callItem EXCEPT !.uri = convertPathToUri(callItem.uri)]>>)

OnPrepareCheck(tok) == throwIfCancellationRequested(tok)

OnPrepare ==
    /\ pc = "ready"
    /\ op' = "onPrepare"
    /\ IF OnPrepareCheck(token)
       THEN Finish(Cancelled) /\ UNCHANGED <<targetDecl, symbolName>>
       ELSE /\ Finish(OnPrepareResult(query))
            /\ IF query.hasParse /\ query.ref.found /\ Len(query.ref.declarations) > 0
               THEN LET t == getTargetDeclaration(query.ref, query.filePath)
                    IN  targetDecl' = t.targetDecl /\ symbolName' = t.symbolName
               ELSE UNCHANGED <<targetDecl, symbolName>>
    /\ UNCHANGED <<query, info, token, sourceFiles, fileIdx, todo, parseRoot, outgoingCalls,
                   incomingCalls, items, hostLog, sites>>

(* ---------------------------------------------------------------------- *)
(* getIncomingCalls, lines 105-155.                                        *)
(* ---------------------------------------------------------------------- *)
(* The host's whole list, whatever the target. *)
AllSourceFiles(target, filePath) == SourceFileInfoList

(* Lines 119-122. *)
IncomingSourceFiles(target, filePath) ==
    IF target.type = "Alias" THEN <<filePath>> ELSE SourceFileInfoList

(* Line 124. *)
isUserCode(f) == info[f].isUserCode
ScansFile(f) == isUserCode(f) \/ info[f].isOpenByClient

IncomingTopCheck(tok) == throwIfCancellationRequested(tok)

GetIncomingCalls ==
    /\ pc = "ready"
    /\ op' = "getIncomingCalls"
    /\ IF IncomingTopCheck(token)
       THEN Finish(Cancelled) /\ UNCHANGED <<targetDecl, symbolName, sourceFiles, fileIdx>>
       ELSE IF ~query.hasParse \/ ~query.ref.found \/ Len(query.ref.declarations) = 0
       THEN Finish(Null) /\ UNCHANGED <<targetDecl, symbolName, sourceFiles, fileIdx>>
       ELSE LET t == getTargetDeclaration(query.ref, query.filePath) IN
            /\ targetDecl' = t.targetDecl
            /\ symbolName' = t.symbolName
            /\ sourceFiles' = IncomingSourceFiles(t.targetDecl, query.filePath)
            /\ fileIdx' = 1
            /\ pc' = "files"
            /\ UNCHANGED result
    /\ UNCHANGED <<query, info, token, todo, parseRoot, outgoingCalls, incomingCalls, items,
                   hostLog, sites>>

(* _getIncomingCallsForDeclaration, line 280. *)
IncomingFileCheck(tok) == throwIfCancellationRequested(tok)

(* Lines 123-131 and 280-292: the next file of the loop; a file that is    *)
(* neither user code nor open is passed over.                              *)
IncomingNextFile ==
    /\ pc = "files"
    /\ fileIdx <= Len(sourceFiles)
    /\ LET f == sourceFiles[fileIdx] IN
       IF ~ScansFile(f)
       THEN /\ fileIdx' = fileIdx + 1
            /\ UNCHANGED <<pc, result, todo, incomingCalls, hostLog>>
       ELSE IF IncomingFileCheck(token)
       THEN /\ Finish(Cancelled)
            /\ UNCHANGED <<fileIdx, todo, incomingCalls, hostLog>>
       ELSE /\ pc' = "scan"
            /\ todo' = WalkFile(f)
            /\ incomingCalls' = <<>>
            /\ hostLog' = Append(hostLog, [e |-> "walk", file |-> f])
            /\ UNCHANGED <<fileIdx, result>>
    /\ UNCHANGED <<query, info, token, op, targetDecl, symbolName, sourceFiles, parseRoot,
                   outgoingCalls, items, sites>>

(* A visit that does not look at the token. *)
IncomingVisitNoCheck(tok) == FALSE

(* FindIncomingCallTreeWalker.visitCall / visitMemberAccess, lines 461, 505. *)
IncomingVisitCheck(tok) == throwIfCancellationRequested(tok)

IncomingVisitStep ==
    /\ pc = "scan"
    /\ todo # <<>>
    /\ IF IncomingVisitCheck(token)
       THEN Finish(Cancelled) /\ UNCHANGED <<todo, incomingCalls>>
       ELSE /\ incomingCalls' = IncomingVisit(incomingCalls, sourceFiles[fileIdx], symbolName,
                                              targetDecl, Head(todo))
            /\ todo' = Tail(todo)
            /\ UNCHANGED <<pc, result>>
    /\ UNCHANGED <<query, info, token, op, targetDecl, symbolName, sourceFiles, fileIdx,
                   parseRoot, outgoingCalls, items, hostLog, sites>>

(* The end of a file's walk without the call of line 139. *)
IncomingFileDoneNoHook ==
    /\ pc = "scan"
    /\ todo = <<>>
    /\ items' = items \o incomingCalls
    /\ fileIdx' = fileIdx + 1
    /\ pc' = "files"
    /\ UNCHANGED <<query, info, token, op, targetDecl, symbolName, sourceFiles, todo, parseRoot,
                   outgoingCalls, incomingCalls, result, hostLog, sites>>

(* Lines 292-293 and 133-139: the walk of the file is over. *)
IncomingFileDone ==
    /\ pc = "scan"
    /\ todo = <<>>
    /\ items' = items \o incomingCalls
    /\ hostLog' = Append(hostLog, [e |-> "handleMemoryHighUsage", file |-> sourceFiles[fileIdx]])
    /\ fileIdx' = fileIdx + 1
    /\ pc' = "files"
    /\ UNCHANGED <<query, info, token, op, targetDecl, symbolName, sourceFiles, todo, parseRoot,
                   outgoingCalls, incomingCalls, result, sites>>

(* Lines 143-154. *)
IncomingResult(found) ==
    IF Len(found) = 0 THEN Null
    ELSE LET callItems == SelectSeq(found, LAMBDA item : canNavigateToFile(item.from.uri))
         IN  List([i \in 1..Len(callItems) |->
                     [callItems[i] EXCEPT !.from.uri = convertPathToUri(callItems[i].from.uri)]])

IncomingReturn ==
    /\ pc = "files"
    /\ fileIdx > Len(sourceFiles)
    /\ Finish(IncomingResult(items))
    /\ UNCHANGED <<query, info, token, op, targetDecl, symbolName, sourceFiles, fileIdx, todo,
                   parseRoot, outgoingCalls, incomingCalls, items, hostLog, sites>>


(* ---------------------------------------------------------------------- *)
(* getOutgoingCalls, lines 157-226.                                        *)
(* ---------------------------------------------------------------------- *)
(* A lookup that searches the base classes too. *)
InitLookupFlagsWithBases == {"SkipInstanceVariables", "SkipObjectBaseClass"}

(* Lines 189-191: the flags of the __init__ lookup. *)
InitLookupFlags == {"SkipInstanceVariables", "SkipObjectBaseClass", "SkipBaseClasses"}

(* Lines 171-206: the node to walk, NoNode when there is none. *)
OutgoingParseRoot(resolvedDecl) ==
    IF resolvedDecl.type = "Function" THEN resolvedDecl.node
    ELSE IF resolvedDecl.type = "Class"
    THEN LET initMethodMember == lookUpClassMember(resolvedDecl.name, "__init__", InitLookupFlags)
         IN  IF initMethodMember.found /\ initMethodMember.hasType /\ initMethodMember.isFunction
                /\ Len(initMethodMember.decls) > 0
                /\ initMethodMember.decls[1].type = "Function"
             THEN initMethodMember.decls[1].node
             ELSE NoNode
    ELSE NoNode

OutgoingTopCheck(tok) == throwIfCancellationRequested(tok)

(* Lines 213-225. *)
OutgoingResult(found) ==
    IF Len(found) = 0 THEN Null
    ELSE LET callItems == SelectSeq(found, LAMBDA item : canNavigateToFile(item.to.uri))
         IN  List([i \in 1..Len(callItems) |->
                     [callItems[i] EXCEPT !.to.uri = convertPathToUri(callItems[i].to.uri)]])

GetOutgoingCalls ==
    /\ pc = "ready"
    /\ op' = "getOutgoingCalls"
    /\ IF OutgoingTopCheck(token)
       THEN Finish(Cancelled) /\ UNCHANGED <<targetDecl, symbolName, parseRoot, todo>>
       ELSE IF ~query.hasParse \/ ~query.ref.found \/ Len(query.ref.declarations) = 0
       THEN Finish(Null) /\ UNCHANGED <<targetDecl, symbolName, parseRoot, todo>>
       ELSE LET t == getTargetDeclaration(query.ref, query.filePath)
                resolvedDecl == resolveAliasDeclaration(t.targetDecl)
                root == IF resolvedDecl = Undefined THEN NoNode
                        ELSE OutgoingParseRoot(resolvedDecl)
            IN  /\ targetDecl' = t.targetDecl
                /\ symbolName' = t.symbolName
                /\ parseRoot' = root
                /\ IF root = NoNode
                   THEN Finish(Null) /\ UNCHANGED todo
                   ELSE /\ todo' = WalkNode(resolvedDecl.path, root)
                        /\ pc' = "walk"
                        /\ UNCHANGED result
    /\ UNCHANGED <<query, info, token, sourceFiles, fileIdx, outgoingCalls, incomingCalls,
                   items, hostLog, sites>>

(* FindOutgoingCallTreeWalker.visitCall / visitMemberAccess, lines 326, 353. *)
OutgoingVisitCheck(tok) == throwIfCancellationRequested(tok)

OutgoingVisitStep ==
    /\ pc = "walk"
    /\ todo # <<>>
    /\ IF OutgoingVisitCheck(token)
       THEN Finish(Cancelled) /\ UNCHANGED <<todo, outgoingCalls>>
       ELSE /\ outgoingCalls' = OutgoingVisit(outgoingCalls, Head(todo))
            /\ todo' = Tail(todo)
            /\ UNCHANGED <<pc, result>>
    /\ UNCHANGED <<query, info, token, op, targetDecl, symbolName, sourceFiles, fileIdx,
                   parseRoot, incomingCalls, items, hostLog, sites>>

OutgoingReturn ==
    /\ pc = "walk"
    /\ todo = <<>>
    /\ Finish(OutgoingResult(outgoingCalls))
    /\ UNCHANGED <<query, info, token, op, targetDecl, symbolName, sourceFiles, fileIdx, todo,
                   parseRoot, outgoingCalls, incomingCalls, items, hostLog, sites>>

Next ==
    \/ Cancel
    \/ OnPrepare
    \/ GetIncomingCalls
    \/ IncomingNextFile
    \/ IncomingVisitStep
    \/ IncomingFileDone
    \/ IncomingReturn
    \/ GetOutgoingCalls
    \/ OutgoingVisitStep
    \/ OutgoingReturn

Spec == Init /\ [][Next]_vars


(* ====================================================================== *)
(* Properties                                                              *)
(* ====================================================================== *)
IsPrefix(a, b) == Len(a) <= Len(b) /\ \A i \in 1..Len(a) : a[i] = b[i]

(* The file whose parse tree holds the node the outgoing walker walks. *)
WalkedFile == resolveAliasDeclaration(targetDecl).path

OutgoingWalkOver == op = "getOutgoingCalls" /\ pc = "walk" /\ todo = <<>>

(* The offsets of the call expressions of the walked body whose callee     *)
(* name has a declaration resolving to the function or class d.            *)
CallSitesOf(d) ==
    LET walk == WalkNode(WalkedFile, parseRoot) IN
    { walk[i].nameNode.start : i \in
        { j \in 1..Len(walk) :
            /\ walk[j].vt = "Call"
            /\ walk[j].nameNode.present
            /\ \E k \in 1..Len(getDeclarationsForNameNode(walk[j].nameNode.value)) :
                  resolveAliasDeclaration(getDeclarationsForNameNode(walk[j].nameNode.value)[k]) = d } }

OutgoingRecordsOf(d) ==
    { i \in 1..Len(outgoingCalls) :
        outgoingCalls[i].to.uri = d.path /\ rangesAreEqual(outgoingCalls[i].to.range, d.range) }

Callees == { d \in {DeclOf(id) : id \in DeclIds} : Eligible(d) }

(* C1: when the outgoing walk of a function body is over, every callee     *)
(* declaration that exactly two call expressions of the body resolve to    *)
(* has exactly one record, with exactly two ranges, the range of the       *)
(* earlier call site first.                                                *)
C1_MergeInSourceOrder ==
    OutgoingWalkOver =>
        \A d \in Callees :
            Cardinality(CallSitesOf(d)) = 2 =>
                /\ Cardinality(OutgoingRecordsOf(d)) = 1
                /\ \A i \in OutgoingRecordsOf(d) :
                      /\ Len(outgoingCalls[i].fromRanges) = 2
                      /\ outgoingCalls[i].fromRanges[1].start < outgoingCalls[i].fromRanges[2].start

IncomingWalkOver == op = "getIncomingCalls" /\ pc = "scan" /\ todo = <<>>

(* The call expressions of the scanned file that visitCall confirms as     *)
(* calls to the target, by the range of their execution scope.             *)
ConfirmedCallsIn(file, scopeRange) ==
    LET walk == WalkFile(file) IN
    { walk[i].nameNode.start : i \in
        { j \in 1..Len(walk) :
            /\ walk[j].vt = "Call"
            /\ IncomingVisitCall(<<>>, file, symbolName, targetDecl, walk[j]) # <<>>
            /\ CallSource(file, walk[j].scope).range = scopeRange } }

ScopeRanges(file) ==
    LET walk == WalkFile(file) IN {CallSource(file, walk[i].scope).range : i \in 1..Len(walk)}

IncomingRecordsOf(file, scopeRange) ==
    { i \in 1..Len(incomingCalls) :
        incomingCalls[i].from.uri = file /\ rangesAreEqual(incomingCalls[i].from.range, scopeRange) }

(* C2: when the incoming walk of a file is over, every execution scope     *)
(* holding exactly two call expressions confirmed as calls to the target   *)
(* has exactly one record, with exactly two ranges, one per occurrence.    *)
C2_IncomingScopeGrouping ==
    IncomingWalkOver =>
        \A sr \in ScopeRanges(sourceFiles[fileIdx]) :
            Cardinality(ConfirmedCallsIn(sourceFiles[fileIdx], sr)) = 2 =>
                /\ Cardinality(IncomingRecordsOf(sourceFiles[fileIdx], sr)) = 1
                /\ \A i \in IncomingRecordsOf(sourceFiles[fileIdx], sr) :
                      /\ Len(incomingCalls[i].fromRanges) = 2
                      /\ {incomingCalls[i].fromRanges[k].start : k \in 1..2}
                            = ConfirmedCallsIn(sourceFiles[fileIdx], sr)

(* C4: getIncomingCalls and getOutgoingCalls return null or a list that is *)
(* not empty.                                                              *)
C4_NullOrNonEmpty ==
    (op \in {"getIncomingCalls", "getOutgoingCalls"} /\ result.kind = "list")
        => Len(result.value) > 0

(* The eligibility gate of section 4.1 on the selected target. *)
PassesGate(d) ==
    \/ d.type = "Function"
    \/ d.type = "Class"
    \/ d.type = "Alias" /\ resolveAliasDeclaration(d) # Undefined
                        /\ Eligible(resolveAliasDeclaration(d))

TargetSelected == targetDecl # Undefined

Scanned ==
    LET walks == SelectSeq(hostLog, LAMBDA e : e.e = "walk")
    IN  [i \in 1..Len(walks) |-> walks[i].file]

(* C6: in each of the three operations, a selected target that does not    *)
(* pass the eligibility gate never yields a list, and no file is scanned   *)
(* for it.                                                                 *)
C6_EligibilityGate ==
    (TargetSelected /\ ~PassesGate(targetDecl)) =>
        /\ result.kind # "list"
        /\ Scanned = <<>>

(* The next step of the running operation starts with a cancellation check. *)
AtCheckPoint ==
    \/ pc = "ready"
    \/ pc = "files" /\ fileIdx <= Len(sourceFiles) /\ ScansFile(sourceFiles[fileIdx])
    \/ pc = "scan" /\ todo # <<>>
    \/ pc = "walk" /\ todo # <<>>

(* C7: a step taken at a check point while cancellation is requested ends  *)
(* the operation as cancelled, with no list and no null, whatever records  *)
(* were accumulated; a cancelled operation never turns into another result.*)
C7_CancellationNoResult ==
    [][ /\ (token /\ AtCheckPoint) => (result' = Cancelled /\ pc' = "done")
        /\ (result = Cancelled) => (result' = Cancelled) ]_vars

C7_Witness ==
    /\ op = "getIncomingCalls"
    /\ result = Cancelled
    /\ items # <<>>
    /\ incomingCalls # <<>>

(* The files of the host's list that are user code or open, in list order. *)
RECURSIVE UserOrOpen(_)
UserOrOpen(files) ==
    IF files = <<>> THEN <<>>
    ELSE (IF info[Head(files)].isUserCode \/ info[Head(files)].isOpenByClient
          THEN <<Head(files)>> ELSE <<>>) \o UserOrOpen(Tail(files))

(* C8: for an Alias target the incoming walker runs on at most one file,   *)
(* the querying file; for any other target it runs on the files of the     *)
(* program's list that are user code or open: never on another file, in    *)
(* list order, and on all of them once the operation has returned.         *)
C8_CandidateFiles ==
    (op = "getIncomingCalls" /\ TargetSelected) =>
        IF targetDecl.type = "Alias"
        THEN /\ Len(Scanned) <= 1
             /\ \A i \in 1..Len(Scanned) : Scanned[i] = query.filePath
             /\ \A i \in 1..Len(Scanned) : ScansFile(Scanned[i])
        ELSE /\ IsPrefix(Scanned, UserOrOpen(SourceFileInfoList))
             /\ result.kind \in {"null", "list"} => Scanned = UserOrOpen(SourceFileInfoList)

C8_Witness ==
    /\ op = "getIncomingCalls"
    /\ result.kind = "list"
    /\ targetDecl.type = "Alias"
    /\ Scanned = <<"main">>
    /\ info["lib"].isUserCode
    /\ info["ext"].isOpenByClient

(* C9: getOutgoingCalls on a target resolving to a class that declares no  *)
(* __init__ of its own returns null and walks nothing; a walk it does      *)
(* start is rooted at the first declaration of the class's own __init__.   *)
C9_ClassConstructor ==
    (op = "getOutgoingCalls" /\ TargetSelected
        /\ resolveAliasDeclaration(targetDecl).type = "Class") =>
        LET own == ClassField(resolveAliasDeclaration(targetDecl).name, "__init__") IN
        /\ ~own.found => (result = Null /\ parseRoot = NoNode /\ outgoingCalls = <<>>)
        /\ parseRoot # NoNode => (own.found /\ parseRoot = own.decls[1].node)

C9_Witness ==
    /\ op = "getOutgoingCalls"
    /\ targetDecl = DeclOf("D")
    /\ ClassField("C", "__init__").found
    /\ result = Null

(* ---------------------------------------------------------------------- *)
(* _getTargetDeclaration over every candidate list of up to MaxCandidates  *)
(* declarations: onPrepare on a cursor whose candidates are drawn from all *)
(* kinds, typed or not, defined at the cursor node or elsewhere.           *)
(* ---------------------------------------------------------------------- *)
MaxCandidates == 3

CandidateShapes ==
    [type : {"Function", "Class", "Alias", "Variable"}, hasType : BOOLEAN,
     node : {"node:cursor", "node:other"}]

CandidateLists ==
    UNION { [1..n -> CandidateShapes] : n \in 1..MaxCandidates }

Candidates(shapes) ==
    [i \in 1..Len(shapes) |->
        Decl(shapes[i].type, "main", 200 + 2 * i, "sym", shapes[i].hasType, shapes[i].node,
             IF shapes[i].type = "Alias" THEN "real" ELSE NoDecl)]

InitAnchor ==
    /\ \E shapes \in CandidateLists :
          query = Query("main", TRUE,
                        [found |-> TRUE, declarations |-> Candidates(shapes),
                         nodeAtOffset |-> [id |-> "node:cursor", value |-> "sym"],
                         symbolNames |-> <<"sym">>])
    /\ info = [f \in Files |-> [isUserCode |-> TRUE, isOpenByClient |-> FALSE]]
    /\ token = FALSE
    /\ op = "none"
    /\ pc = "ready"
    /\ targetDecl = Undefined
    /\ symbolName = NoName
    /\ sourceFiles = <<>>
    /\ fileIdx = 0
    /\ todo = <<>>
    /\ parseRoot = NoNode
    /\ outgoingCalls = <<>>
    /\ incomingCalls = <<>>
    /\ items = <<>>
    /\ result = Pending
    /\ hostLog = <<>>
    /\ sites = <<>>

SpecAnchor == InitAnchor /\ [][OnPrepare]_vars

(* C5: once the target is selected, if some candidate's defining node is   *)
(* the occurrence node under the cursor, the selected target is defined at *)
(* that node.                                                              *)
C5_ExactMatchWins ==
    (TargetSelected
        /\ \E i \in 1..Len(query.ref.declarations) :
              query.ref.declarations[i].node = query.ref.nodeAtOffset.id)
    => targetDecl.node = query.ref.nodeAtOffset.id


(* ---------------------------------------------------------------------- *)
(* The two aggregators over every sequence of up to MaxSites call sites:   *)
(* a walker of either kind is handed, one at a time, a name occurrence of  *)
(* any spelling and a declaration (outgoing) or an execution scope         *)
(* (incoming), as visitCall and visitMemberAccess hand them over.          *)
(* ---------------------------------------------------------------------- *)
MaxSites == 4

Spellings == {"real", "alias_name", "r2"}
SiteDecls == {DeclOf(id) : id \in {"imp_real", "imp_alias", "helper", "imp_bad", "x"}}
SiteScopes ==
    { ModuleScope,
      [nt |-> "Function", start |-> 1, length |-> 1, name |-> "seq"],
      [nt |-> "Lambda", start |-> 70, length |-> 5, name |-> NoName] }

InitAgg ==
    /\ query = Query("lib", TRUE, Ref(<<"real">>, "name:real", "real"))
    /\ info = [f \in Files |-> [isUserCode |-> TRUE, isOpenByClient |-> FALSE]]
    /\ token = FALSE
    /\ op \in {"getOutgoingCalls", "getIncomingCalls"}
    /\ pc = IF op = "getOutgoingCalls" THEN "walk" ELSE "scan"
    /\ targetDecl = DeclOf("real")
    /\ symbolName = "real"
    /\ sourceFiles = <<"main">>
    /\ fileIdx = 1
    /\ todo = <<>>
    /\ parseRoot = NoNode
    /\ outgoingCalls = <<>>
    /\ incomingCalls = <<>>
    /\ items = <<>>
    /\ result = Pending
    /\ hostLog = <<>>
    /\ sites = <<>>

(* The offset of the next call site: the sites come in any order of        *)
(* spelling, one token apart.                                              *)
NextStart == 2 * Len(sites)

AggOutgoingSite ==
    /\ op = "getOutgoingCalls"
    /\ Len(sites) < MaxSites
    /\ \E value \in Spellings, d \in SiteDecls :
          /\ outgoingCalls' =
                addOutgoingCallForDeclaration(outgoingCalls, NameAt(value, NextStart), d)
          /\ sites' = Append(sites, [nameNode |-> NameAt(value, NextStart), decl |-> d,
                                     scope |-> ModuleScope])
    /\ UNCHANGED <<query, info, token, op, pc, targetDecl, symbolName, sourceFiles, fileIdx,
                   todo, parseRoot, incomingCalls, items, result, hostLog>>

AggIncomingSite ==
    /\ op = "getIncomingCalls"
    /\ Len(sites) < MaxSites
    /\ \E scope \in SiteScopes :
          /\ incomingCalls' =
                addIncomingCallForDeclaration(incomingCalls, sourceFiles[fileIdx],
                                              NameAt(symbolName, NextStart), scope)
          /\ sites' = Append(sites, [nameNode |-> NameAt(symbolName, NextStart),
                                     decl |-> targetDecl, scope |-> scope])
    /\ UNCHANGED <<query, info, token, op, pc, targetDecl, symbolName, sourceFiles, fileIdx,
                   todo, parseRoot, outgoingCalls, items, result, hostLog>>

NextAgg == AggOutgoingSite \/ AggIncomingSite

SpecAgg == InitAgg /\ [][NextAgg]_vars

(* The call sites handed to the outgoing aggregator that fold into the     *)
(* record of destination `to`.                                             *)
FoldedInto(log, to) ==
    { k \in 1..Len(log) :
        LET r == resolveAliasDeclaration(log[k].decl) IN
        /\ r # Undefined
        /\ Eligible(r)
        /\ r.path = to.uri
        /\ rangesAreEqual(r.range, to.range) }

ResolvedNameOf(to) ==
    LET ds == { d \in {resolveAliasDeclaration(sd) : sd \in SiteDecls} :
                  d # Undefined /\ d.path = to.uri /\ rangesAreEqual(d.range, to.range) }
    IN  getNameFromDeclaration(CHOOSE d \in ds : TRUE)

(* C3: an outgoing record whose call sites were spelled in two or more     *)
(* ways carries the name of the resolved declaration (when it has one),    *)
(* and every record has one range per call site folded into it.            *)
C3_AliasPrecedence ==
    op = "getOutgoingCalls" =>
        \A i \in 1..Len(outgoingCalls) :
            LET to == outgoingCalls[i].to
                folded == FoldedInto(sites, to)
                spellings == {sites[k].nameNode.value : k \in folded}
            IN  /\ (ResolvedNameOf(to) # NoName /\ Cardinality(spellings) >= 2)
                      => to.name = ResolvedNameOf(to)
                /\ Len(outgoingCalls[i].fromRanges) = Cardinality(folded)

C3_Witness ==
    /\ op = "getOutgoingCalls"
    /\ Len(sites) = 4
    /\ \A k \in 1..4 : sites[k].decl \in {DeclOf("imp_real"), DeclOf("imp_alias")}
    /\ <<sites[1].nameNode.value, sites[2].nameNode.value, sites[3].nameNode.value,
         sites[4].nameNode.value>> = <<"alias_name", "alias_name", "r2", "alias_name">>
    /\ Len(outgoingCalls) = 1
    /\ outgoingCalls[1].to.name = "real"
    /\ Len(outgoingCalls[1].fromRanges) = 4

OutgoingKeys(calls) == [i \in 1..Len(calls) |-> <<calls[i].to.uri, calls[i].to.range>>]
IncomingKeys(calls) == [i \in 1..Len(calls) |-> <<calls[i].from.uri, calls[i].from.range>>]
NoDuplicate(keys) == \A i, j \in 1..Len(keys) : keys[i] = keys[j] => i = j

(* The range lists after a step: the list at index i has grown by r at its *)
(* end, every other list is as it was.                                     *)
AppendedAt(before, after, i, r) ==
    /\ Len(after) = Len(before)
    /\ after[i].fromRanges = Append(before[i].fromRanges, r)
    /\ \A j \in 1..Len(before) : j # i => after[j].fromRanges = before[j].fromRanges

LastSiteRange(log) ==
    convertOffsetsToRange(log[Len(log)].nameNode.start,
                          log[Len(log)].nameNode.start + log[Len(log)].nameNode.length)

(* C10: after every insertion no two outgoing records share (callee file,  *)
(* callee range) and no two incoming records share (caller file, caller    *)
(* range); a call site whose key is already recorded is appended at the    *)
(* end of that record's ranges, the records keeping their number and order.*)
C10_KeyUniqueness ==
    [][ /\ NoDuplicate(OutgoingKeys(outgoingCalls'))
        /\ NoDuplicate(IncomingKeys(incomingCalls'))
        /\ \A i \in 1..Len(outgoingCalls) :
              (Len(sites') = Len(sites) + 1 /\ Len(sites') \in FoldedInto(sites', outgoingCalls[i].to))
              => /\ OutgoingKeys(outgoingCalls') = OutgoingKeys(outgoingCalls)
                 /\ AppendedAt(outgoingCalls, outgoingCalls', i, LastSiteRange(sites'))
        /\ \A i \in 1..Len(incomingCalls) :
              (Len(sites') = Len(sites) + 1 /\ op = "getIncomingCalls"
                 /\ CallSource(sourceFiles[fileIdx], sites'[Len(sites')].scope).range
                       = incomingCalls[i].from.range)
              => /\ IncomingKeys(incomingCalls') = IncomingKeys(incomingCalls)
                 /\ AppendedAt(incomingCalls, incomingCalls', i, LastSiteRange(sites')) ]_vars

C10_Witness ==
    /\ op = "getOutgoingCalls"
    /\ Len(outgoingCalls) = 2
    /\ Len(outgoingCalls[1].fromRanges) = 2
    /\ Len(outgoingCalls[2].fromRanges) = 2
    /\ outgoingCalls[1].fromRanges[2].start > outgoingCalls[2].fromRanges[1].start


(* The candidates that are a Function or Class with a declared type. *)
TypedCallables(declarations) ==
    { i \in 1..Len(declarations) :
        /\ declarations[i].type \in {"Function", "Class"}
        /\ declarations[i].hasType }

NoExactMatch(ref) ==
    \A i \in 1..Len(ref.declarations) : ref.declarations[i].node # ref.nodeAtOffset.id

(* C11: when no candidate is defined at the cursor node, the selected      *)
(* target is the last Function or Class candidate with a declared type if  *)
(* there is one, and the last candidate if all candidates are Functions or *)
(* Classes and none has a declared type.                                   *)
C11_TypedAndLater ==
    (TargetSelected /\ NoExactMatch(query.ref)) =>
        LET ds == query.ref.declarations
            typed == TypedCallables(ds)
        IN  /\ typed # {} =>
                  targetDecl = ds[CHOOSE i \in typed : \A j \in typed : j <= i]
            /\ ((\A i \in 1..Len(ds) : ds[i].type \in {"Function", "Class"} /\ ~ds[i].hasType)
                  => targetDecl = ds[Len(ds)])

C11_Witness ==
    /\ TargetSelected
    /\ NoExactMatch(query.ref)
    /\ Len(query.ref.declarations) = 3
    /\ TypedCallables(query.ref.declarations) = {1, 2}
    /\ query.ref.declarations[3].type = "Function"
    /\ targetDecl = query.ref.declarations[2]


(* The host's log is walk, hook, walk, hook, ...: every hook call directly *)
(* follows the walk of the same file.                                      *)
WalkThenHook(log) ==
    \A k \in 1..Len(log) :
        IF k % 2 = 1 THEN log[k].e = "walk"
        ELSE log[k].e = "handleMemoryHighUsage" /\ log[k].file = log[k - 1].file

HookCalled(before, after) ==
    /\ Len(after) = Len(before) + 1
    /\ after[Len(after)].e = "handleMemoryHighUsage"

(* C12: handleMemoryHighUsage is called once after the completed walk of   *)
(* each scanned file and before the next walk starts, never for a file     *)
(* that is neither user code nor open, and never by onPrepare or           *)
(* getOutgoingCalls; no step changes anything else of the host.            *)
C12_MemoryHookOrdering ==
    [][ /\ WalkThenHook(hostLog')
        /\ HookCalled(hostLog, hostLog') =>
              /\ op = "getIncomingCalls"
              /\ pc = "scan" /\ todo = <<>>
              /\ ScansFile(hostLog'[Len(hostLog')].file)
        /\ result'.kind \in {"null", "list"} => Len(hostLog') % 2 = 0
        /\ op' \in {"onPrepare", "getOutgoingCalls"} => hostLog' = <<>>
        /\ info' = info
        /\ query' = query ]_vars

C12_Witness ==
    /\ op = "getIncomingCalls"
    /\ result.kind = "list"
    /\ ~ScansFile("lib")
    /\ Len(hostLog) = 4
    /\ <<hostLog[1].file, hostLog[2].file, hostLog[3].file, hostLog[4].file>>
          = <<"main", "main", "ext", "ext">>


(* A declaration whose alias resolution fails or ends at something that is *)
(* neither a function nor a class.                                         *)
ResolutionGap(d) ==
    \/ resolveAliasDeclaration(d) = Undefined
    \/ resolveAliasDeclaration(d).type \notin {"Function", "Class"}

(* The functions and classes the declarations of the call sites resolve to. *)
ResolvedCallees ==
    { r \in {resolveAliasDeclaration(d) : d \in SiteDecls} :
        r # Undefined /\ r.type \in {"Function", "Class"} }

(* C13: in the outgoing walk a call-site declaration with a resolution gap *)
(* leaves the records as they are (no record added, no range added, no     *)
(* name changed); every record is that of a resolved function or class and *)
(* has at least one range.                                                 *)
C13_GapsContributeNothing ==
    [][ op = "getOutgoingCalls" =>
        /\ (Len(sites') = Len(sites) + 1 /\ ResolutionGap(sites'[Len(sites')].decl))
              => outgoingCalls' = outgoingCalls
        /\ \A i \in 1..Len(outgoingCalls') :
              /\ outgoingCalls'[i].to.kind \in {"Function", "Class"}
              /\ \E r \in ResolvedCallees :
                    /\ r.path = outgoingCalls'[i].to.uri
                    /\ rangesAreEqual(r.range, outgoingCalls'[i].to.range)
                    /\ r.type = outgoingCalls'[i].to.kind
              /\ Len(outgoingCalls'[i].fromRanges) >= 1 ]_vars

C13_Witness ==
    /\ op = "getOutgoingCalls"
    /\ Len(sites) = 3
    /\ sites[1].decl = DeclOf("imp_alias") /\ sites[1].nameNode.value = "alias_name"
    /\ sites[2].decl = DeclOf("imp_bad") /\ sites[2].nameNode.value = "real"
    /\ sites[3].decl = DeclOf("x") /\ sites[3].nameNode.value = "r2"
    /\ Len(outgoingCalls) = 1
    /\ outgoingCalls[1].to.name = "alias_name"
    /\ Len(outgoingCalls[1].fromRanges) = 1

====
